---- MODULE Spec2Model ----
(***************************************************************************)
(* Model of the parallel search meta-tool (src/src/tools/parallel_tool.py):*)
(* input validation, the bounded worker pool, collection of the futures    *)
(* with as_completed under the batch timeout, and the report.              *)
(***************************************************************************)
EXTENDS Naturals, Integers, Sequences, FiniteSets, TLC

(* ---------------------------- bounds ----------------------------------- *)

\* Batches of up to MaxMixedLen entries are drawn from every combination of
\* the entries of EntrySet; longer batches are uniform.
MaxMixedLen == 2

(* ------------------------ program constants ---------------------------- *)

\* A pool as large as the largest batch.
MAX_WORKERS_ten == 10

MAX_WORKERS == 5
MAX_SEARCHES == 10

(* --------------------------- JSON values ------------------------------- *)

\* A JSON value read from a dict: a string, a non-string (the number 5) or
\* the absence of the key.
JStr(s) == <<"str", s>>
JInt == <<"int", "5">>
Absent == <<"absent", "">>

IsStr(v) == v[1] = "str"

\* dict.get(key, default)
DictGet(d, key, default) == IF d[key] = Absent THEN default ELSE d[key]

\* str.lower() and str.upper() on the strings of the model
lower(s) ==
    CASE s = "NEWS" -> "news"
      [] s = "Web" -> "web"
      [] OTHER -> s

upper(s) ==
    CASE s = "web" -> "WEB"
      [] s = "Web" -> "WEB"
      [] s = "news" -> "NEWS"
      [] s = "bogus" -> "BOGUS"
      [] s = "unknown" -> "UNKNOWN"
      [] OTHER -> s

(* ----------------------------- inputs ---------------------------------- *)

\* One element of the "searches" array.  shape "dict" is a JSON object;
\* shape "int" is a number; shape "str" is a string that contains the text
\* "query" (so that the membership test of the validation loop passes).
Dict(t, q) == [shape |-> "dict", type |-> t, query |-> q]
NonDict(sh) == [shape |-> sh, type |-> Absent, query |-> Absent]

EntrySet ==
    { Dict(JStr("web"), JStr("q")),
      Dict(JStr("NEWS"), JStr("q")),
      Dict(JStr("bogus"), JStr("q")),
      Dict(Absent, JStr("q")),
      Dict(JInt, JStr("q")),
      Dict(JStr("web"), JStr("")),
      Dict(JStr("web"), JInt),
      Dict(JStr("web"), Absent),
      NonDict("int"),
      NonDict("str") }

WellFormed == Dict(JStr("web"), JStr("q"))

Uniform(n, e) == [i \in 1..n |-> e]

MixedBatches == UNION { [1..n -> EntrySet] : n \in 0..MaxMixedLen }

LongBatches ==
    { Uniform(MAX_SEARCHES, WellFormed),
      Uniform(MAX_SEARCHES + 1, WellFormed),
      [Uniform(MAX_SEARCHES + 1, WellFormed) EXCEPT ![2] = Dict(JStr("web"), Absent)] }

\* What json.loads makes of the input string: a decode error ("invalid"), a
\* value that is not an object ("nonobject"), or an object with or without
\* the key "searches".
Input(top, has, ss) == [top |-> top, hasSearches |-> has, searches |-> ss]

\* What a call of a tool function does: it returns a text or it raises.
Returns(text) == <<"return", text>>
Raises(msg) == <<"raise", msg>>

\* What a search may do with a query it can run, in a run where the network
\* is unreliable: return its results or raise.
Outcomes == { Returns("text"), Raises("boom") }

\* The tool functions answer the empty query with an error text and raise on
\* a query that is not a string (query.strip()); what they do with any other
\* query is one of modes.
ToolOutcomes(query, modes) ==
    IF ~IsStr(query) THEN { Raises("'int' object has no attribute 'strip'") }
    ELSE IF query[2] = "" THEN { Returns("Error: No search query provided.") }
    ELSE modes

Runs ==
    { <<Input("invalid", FALSE, <<>>), Outcomes>>,
      <<Input("nonobject", FALSE, <<>>), Outcomes>>,
      <<Input("object", FALSE, <<>>), Outcomes>> }
    \cup { <<Input("object", TRUE, ss), Outcomes>> : ss \in MixedBatches }
    \cup { <<Input("object", TRUE, ss), {Returns("text")}>> : ss \in LongBatches }

(* ------------------------ the registry --------------------------------- *)

RegisteredTools == {"web", "wikipedia", "news", "arxiv"}

NoTool == "None"

\* A registry that falls back to the web search for an unknown type.
get_search_function_fallback(search_type) ==
    IF lower(search_type) \in {"web", "wikipedia", "news", "arxiv"}
    THEN lower(search_type) ELSE "web"

\* get_search_function, applied to a string: the name of the tool function,
\* or None.
get_search_function(search_type) ==
    IF lower(search_type) \in RegisteredTools THEN lower(search_type) ELSE NoTool

(* --------------------- the single-call executor ------------------------ *)

Rec(t, q, r, s) == [type |-> t, query |-> q, result |-> r, success |-> s]

NoExc == <<"", "">>
NoRec == Rec(Absent, Absent, <<"", "">>, FALSE)

\* What a call leaves in its future: a returned record or a raised exception.
Returned(rec) == [kind |-> "result", rec |-> rec, exc |-> NoExc]
Raised(type, msg) == [kind |-> "exception", rec |-> NoRec, exc |-> <<type, msg>>]
NotDone == [kind |-> "none", rec |-> NoRec, exc |-> NoExc]

UnknownTypeMsg(t) == <<"Unknown search type: ", t, ". Use 'web', 'wikipedia', 'news', or 'arxiv'.">>
ErrorMsg(msg) == <<"Error: ", msg, "">>
ExecutionErrorMsg(msg) == <<"Execution error: ", msg, "">>
ToolText(text) == <<"", text, "">>

\* A lookup of the type without the default "web".
SearchType_unknown(search_spec) == DictGet(search_spec, "type", JStr("unknown"))

\* The two lookups at the head of execute_single_search.
SearchType(search_spec) == DictGet(search_spec, "type", JStr("web"))
SearchQuery(search_spec) == DictGet(search_spec, "query", JStr(""))

\* TRUE when execute_single_search reaches the call search_func(query).
CallsTool(search_spec) ==
    /\ search_spec.shape = "dict"
    /\ IsStr(SearchType(search_spec))
    /\ get_search_function(SearchType(search_spec)[2]) # NoTool

\* The call without the try: the exception of the tool leaves the executor.
CallTool_notry(search_type, query, outcome) ==
    IF outcome[1] = "return"
    THEN Returned(Rec(search_type, query, ToolText(outcome[2]), TRUE))
    ELSE Raised("Exception", outcome[2])

\* A call that takes a returned error text for a failure.
CallTool_errtext(search_type, query, outcome) ==
    IF outcome[1] = "return" /\ outcome[2] = "text"
    THEN Returned(Rec(search_type, query, ToolText(outcome[2]), TRUE))
    ELSE Returned(Rec(search_type, query, ErrorMsg(outcome[2]), FALSE))

\* The try block of execute_single_search, where outcome is what the call
\* search_func(query) does.
CallTool(search_type, query, outcome) ==
    IF outcome[1] = "return"
    THEN Returned(Rec(search_type, query, ToolText(outcome[2]), TRUE))
    ELSE Returned(Rec(search_type, query, ErrorMsg(outcome[2]), FALSE))

\* execute_single_search(search_spec), where outcome is what the tool
\* function does if it is called.
execute_single_search(search_spec, outcome) ==
    IF search_spec.shape # "dict"
    THEN Raised("AttributeError", "object has no attribute 'get'")
    ELSE LET search_type == SearchType(search_spec)
             query == SearchQuery(search_spec)
         IN IF ~IsStr(search_type)
            THEN Raised("AttributeError", "object has no attribute 'lower'")
            ELSE IF get_search_function(search_type[2]) = NoTool
            THEN Returned(Rec(search_type, query, UnknownTypeMsg(search_type[2]), FALSE))
            ELSE CallTool(search_type, query, outcome)

\* The record of one call of a tool function.
Call(search_spec, outcome) ==
    [tool |-> get_search_function(SearchType(search_spec)[2]),
     arg |-> SearchQuery(search_spec),
     did |-> outcome]

(* ----------------------------- state ----------------------------------- *)

VARIABLES
    input,          \* what json.loads makes of input_str
    toolModes,      \* what the tool functions can do with a query in this run
    pc,             \* position of parallel_search
    status,         \* per submitted request: "queued", "running" or "done"
    fut,            \* per submitted request: the state of its future
    toolCalls,      \* per submitted request: what each call of a tool function for it did
    snapshot,       \* as_completed: futures finished when it started, not yet yielded
    waiterOn,       \* as_completed: the waiter is installed
    waiterFinished, \* as_completed: futures finished since, in finishing order
    yielding,       \* as_completed: the futures being yielded
    pending,        \* as_completed: number of futures not yet yielded
    timedOut,       \* PARALLEL_TIMEOUT seconds have passed since as_completed started
    results,        \* the list results
    exc,            \* the exception in flight or raised by parallel_search
    ret,            \* the error message returned by parallel_search
    report,         \* the report returned by parallel_search
    tracking,       \* history: TRUE in the runs that record the finishing order
    finishOrder,    \* history: the futures in the order in which they finished
    early,          \* history: how many had finished when as_completed started
    tr_result,      \* truncate_result: the payload r["result"] of a result
    tr_type,        \* truncate_result: the type r["type"] of that result
    tr_once,        \* truncate_result(tr_result, tr_type)
    tr_twice,       \* truncate_result(tr_once, tr_type)
    tr_pc,          \* how often truncate_result has been applied
    max_retries,    \* retry_on_error: the argument max_retries
    delay,          \* retry_on_error: the argument delay
    backoff,        \* retry_on_error: the argument backoff
    attempt,        \* wrapper: the loop variable
    current_delay,  \* wrapper: current_delay
    last_exception, \* wrapper: last_exception
    calls,          \* history: what each call of the wrapped function did
    sleeps,         \* history: the arguments of the calls of time.sleep
    wrapper_pc,     \* position of the wrapper
    wrapper_result, \* what the wrapper returned or raised
    memory_k,       \* SimpleMemory: k
    history,        \* SimpleMemory: history
    added,          \* history: the exchanges added since the last clear or load
    chat_history,   \* the result of get_history_string, until the memory changes
    memory_pc,      \* "ready" when a SimpleMemory exists, "agent" when it is the agent's
    current_session_id, \* ResearchAgent: current_session_id
    files,          \* the files of the sessions directory, by path
    clock,          \* the time, in ticks
    steps,          \* history: the number of calls made on the agent
    op,             \* history: the last call made on the agent, with the state before it
    session_file    \* history: the file of the current session, and whether it was saved or loaded

\* The variables of parallel_search, those of truncate_result, and the
\* variables that a step of parallel_search leaves alone.
dispatcher == <<input, toolModes, pc, status, fut, toolCalls, snapshot, waiterOn,
                waiterFinished, yielding, pending, timedOut, results, exc, ret, report,
                tracking, finishOrder, early>>
truncation == <<tr_result, tr_type, tr_once, tr_twice, tr_pc>>
retrying == <<max_retries, delay, backoff, attempt, current_delay, last_exception,
              calls, sleeps, wrapper_pc, wrapper_result>>
memory == <<memory_k, history, added, chat_history, memory_pc>>
agent == <<current_session_id, files, clock, steps, op, session_file>>
others == <<truncation, retrying, memory, agent>>

vars == <<dispatcher, truncation, retrying, memory, agent>>

NoRet == <<"", 0>>
NoReport == [ok |-> 0, total |-> 0, entries |-> <<>>]

\* truncate_result is not being applied.
TruncationIdle ==
    /\ tr_result = <<>>
    /\ tr_type = ""
    /\ tr_once = <<>>
    /\ tr_twice = <<>>
    /\ tr_pc = "off"

None == <<"None">>

\* No wrapped function is being called.
RetryIdle ==
    /\ max_retries = 0
    /\ delay = 0
    /\ backoff = 0
    /\ attempt = 0
    /\ current_delay = 0
    /\ last_exception = None
    /\ calls = <<>>
    /\ sleeps = <<>>
    /\ wrapper_pc = "off"
    /\ wrapper_result = None

\* There is no SimpleMemory.
MemoryIdle ==
    /\ memory_k = 0
    /\ history = <<>>
    /\ added = <<>>
    /\ chat_history = None
    /\ memory_pc = "off"

NoFiles == [path \in {} |-> None]
NoSessionFile == [origin |-> "none", path |-> None]
NoOp ==
    [name |-> "none", arg |-> None, result |-> <<"none", "">>, path |-> None,
     existed |-> FALSE, answered |-> FALSE,
     pre_history |-> <<>>, pre_id |-> None, pre_session |-> NoSessionFile]

\* There is no ResearchAgent.
AgentIdle ==
    /\ current_session_id = None
    /\ files = NoFiles
    /\ clock = 0
    /\ steps = 0
    /\ op = NoOp
    /\ session_file = NoSessionFile

searches == IF input.hasSearches THEN input.searches ELSE <<>>
N == Len(searches)

Init ==
    /\ \E run \in Runs : input = run[1] /\ toolModes = run[2]
    /\ pc = "start"
    /\ status = <<>>
    /\ fut = <<>>
    /\ toolCalls = <<>>
    /\ snapshot = <<>>
    /\ waiterOn = FALSE
    /\ waiterFinished = <<>>
    /\ yielding = <<>>
    /\ pending = 0
    /\ timedOut = FALSE
    /\ results = <<>>
    /\ exc = NoExc
    /\ ret = NoRet
    /\ report = NoReport
    /\ tracking = FALSE
    /\ finishOrder = <<>>
    /\ early = 0
    /\ TruncationIdle
    /\ RetryIdle
    /\ MemoryIdle
    /\ AgentIdle

(* ------------------------- validation ---------------------------------- *)

\* A validation that also refuses the empty query.
QueryMissing_orEmpty(s) == s.shape = "dict" /\ (s.query = Absent \/ s.query = JStr(""))

\* The membership test '"query" not in s' of the validation loop: it raises
\* TypeError on a number, is a substring test on a string, and a key test on
\* an object.
QueryTestRaises(s) == s.shape = "int"
QueryMissing(s) == s.shape = "dict" /\ s.query = Absent

\* Positions at which the validation loop stops.
Stops(ss) == { i \in 1..Len(ss) : QueryTestRaises(ss[i]) \/ QueryMissing(ss[i]) }
FirstStop(ss) == CHOOSE i \in Stops(ss) : \A j \in Stops(ss) : i <= j

\* A size test that is off by one.
TooMany_off(ss) == Len(ss) >= MAX_SEARCHES

\* The size tests of parallel_search.
NoSearches(ss) == ss = <<>>
TooMany(ss) == Len(ss) > MAX_SEARCHES

Finish(msg, e) ==
    /\ ret' = msg
    /\ exc' = e
    /\ pc' = IF e = NoExc THEN "returned" ELSE "raised"

\* parallel_search up to the creation of the executor: json.loads, the
\* lookup of "searches", the size tests and the validation loop.
Validate ==
    /\ pc = "start"
    /\ IF input.top = "invalid"
       THEN Finish(<<"Error: Invalid JSON.", 0>>, NoExc)
       ELSE IF input.top = "nonobject"
       THEN Finish(NoRet, <<"AttributeError", "object has no attribute 'get'">>)
       ELSE IF NoSearches(searches)
       THEN Finish(<<"Error: No searches provided. Include a 'searches' array.", 0>>, NoExc)
       ELSE IF TooMany(searches)
       THEN Finish(<<"Error: Maximum 10 parallel searches allowed.", 0>>, NoExc)
       ELSE IF Stops(searches) # {}
       THEN IF QueryTestRaises(searches[FirstStop(searches)])
            THEN Finish(NoRet, <<"TypeError", "argument is not iterable">>)
            ELSE Finish(<<"Error: Search is missing 'query' field.", FirstStop(searches)>>, NoExc)
       ELSE /\ pc' = "submit"
            /\ UNCHANGED <<ret, exc>>
    /\ UNCHANGED others
    /\ UNCHANGED <<tracking, finishOrder, early>>
    /\ UNCHANGED <<input, toolModes, status, fut, toolCalls, snapshot, waiterOn,
                   waiterFinished, yielding, pending, timedOut, results, report>>

(* ------------------------ the worker pool ------------------------------ *)

\* The dictionary comprehension of executor.submit calls: every search is
\* queued, in order; submit starts a thread for a work item as long as the
\* pool has fewer than MAX_WORKERS threads, the other items wait in the queue.
SubmitAll ==
    /\ pc = "submit"
    /\ status' = [i \in 1..N |-> IF i <= MAX_WORKERS THEN "running" ELSE "queued"]
    /\ fut' = [i \in 1..N |-> NotDone]
    /\ toolCalls' = [i \in 1..N |-> <<>>]
    /\ pc' = "as_completed"
    /\ UNCHANGED others
    /\ UNCHANGED <<tracking, finishOrder, early>>
    /\ UNCHANGED <<input, toolModes, snapshot, waiterOn, waiterFinished, yielding,
                   pending, timedOut, results, exc, ret, report>>

Running == { i \in DOMAIN status : status[i] = "running" }
Queued == { i \in DOMAIN status : status[i] = "queued" }

\* A worker thread that has finished its work item takes the oldest queued
\* one; the pool has at most MAX_WORKERS threads.
WorkerStart(i) ==
    /\ i \in Queued
    /\ \A j \in Queued : i <= j
    /\ Cardinality(Running) < MAX_WORKERS
    /\ status' = [status EXCEPT ![i] = "running"]
    /\ UNCHANGED others
    /\ UNCHANGED <<tracking, finishOrder, early>>
    /\ UNCHANGED <<input, toolModes, pc, fut, toolCalls, snapshot, waiterOn,
                   waiterFinished, yielding, pending, timedOut, results, exc, ret,
                   report>>

Item(i, f) == [fut |-> f, search |-> searches[i]]

\* The worker runs execute_single_search to its end and sets the future;
\* an installed waiter is notified.
WorkerFinish(i) ==
    /\ i \in Running
    /\ \E outcome \in ToolOutcomes(SearchQuery(searches[i]), toolModes) :
         LET f == execute_single_search(searches[i], outcome)
         IN /\ fut' = [fut EXCEPT ![i] = f]
            /\ waiterFinished' = IF waiterOn THEN Append(waiterFinished, Item(i, f))
                                 ELSE waiterFinished
            /\ finishOrder' = IF tracking THEN Append(finishOrder, Item(i, f))
                              ELSE finishOrder
            /\ toolCalls' = [toolCalls EXCEPT ![i] =
                                IF CallsTool(searches[i])
                                THEN Append(@, Call(searches[i], outcome)) ELSE @]
    /\ status' = [status EXCEPT ![i] = "done"]
    /\ UNCHANGED others
    /\ UNCHANGED <<tracking, early>>
    /\ UNCHANGED <<input, toolModes, pc, snapshot, waiterOn, yielding, pending,
                   timedOut, results, exc, ret, report>>

(* --------------------- collecting the futures -------------------------- *)

RemoveAt(seq, k) == [j \in 1..(Len(seq) - 1) |-> IF j < k THEN seq[j] ELSE seq[j + 1]]

DoneItems(k) ==
    LET RECURSIVE Upto(_)
        Upto(j) == IF j = 0 THEN <<>>
                   ELSE IF fut[j].kind # "none" THEN Append(Upto(j - 1), Item(j, fut[j]))
                   ELSE Upto(j - 1)
    IN Upto(k)

\* The first step of as_completed: the deadline is set, the futures that are
\* finished already are set aside, the waiter is installed on the others.
AsCompletedStart ==
    /\ pc = "as_completed"
    /\ snapshot' = DoneItems(N)
    /\ pending' = N - Len(DoneItems(N))
    /\ waiterOn' = TRUE
    /\ pc' = "ac_first"
    /\ early' = IF tracking THEN Len(DoneItems(N)) ELSE early
    /\ UNCHANGED others
    /\ UNCHANGED <<tracking, finishOrder>>
    /\ UNCHANGED <<input, toolModes, status, fut, toolCalls, waiterFinished, yielding,
                   timedOut, results, exc, ret, report>>

\* A loop body that keeps one result per distinct record.
Collect_dedup(item, next) ==
    IF item.fut.kind = "result"
    THEN /\ results' = IF \E k \in DOMAIN results : results[k] = item.fut.rec
                       THEN results ELSE Append(results, item.fut.rec)
         /\ pc' = next
         /\ exc' = exc
    ELSE IF item.search.shape # "dict"
    THEN /\ exc' = <<"AttributeError", "object has no attribute 'get'">>
         /\ pc' = "shutdown"
         /\ results' = results
    ELSE /\ results' = Append(results,
                Rec(DictGet(item.search, "type", JStr("unknown")),
                    DictGet(item.search, "query", JStr("")),
                    ExecutionErrorMsg(item.fut.exc[2]), FALSE))
         /\ pc' = next
         /\ exc' = exc

\* A loop body that puts the new result in front of the list.
Collect_prepend(item, next) ==
    IF item.fut.kind = "result"
    THEN /\ results' = <<item.fut.rec>> \o results
         /\ pc' = next
         /\ exc' = exc
    ELSE IF item.search.shape # "dict"
    THEN /\ exc' = <<"AttributeError", "object has no attribute 'get'">>
         /\ pc' = "shutdown"
         /\ results' = results
    ELSE /\ results' = <<Rec(DictGet(item.search, "type", JStr("unknown")),
                             DictGet(item.search, "query", JStr("")),
                             ExecutionErrorMsg(item.fut.exc[2]), FALSE)>> \o results
         /\ pc' = next
         /\ exc' = exc

\* The body of the for loop for one yielded future: future.result() and the
\* except clause.  The except clause itself raises when the search is not a
\* dict; the exception then leaves the loop.
Collect(item, next) ==
    IF item.fut.kind = "result"
    THEN /\ results' = Append(results, item.fut.rec)
         /\ pc' = next
         /\ exc' = exc
    ELSE IF item.search.shape # "dict"
    THEN /\ exc' = <<"AttributeError", "object has no attribute 'get'">>
         /\ pc' = "shutdown"
         /\ results' = results
    ELSE /\ results' = Append(results,
                Rec(DictGet(item.search, "type", JStr("unknown")),
                    DictGet(item.search, "query", JStr("")),
                    ExecutionErrorMsg(item.fut.exc[2]), FALSE))
         /\ pc' = next
         /\ exc' = exc

\* as_completed yields the futures that were finished when it started, in
\* the order of a set.
YieldSnapshot ==
    /\ pc = "ac_first"
    /\ IF snapshot = <<>>
       THEN /\ pc' = "ac_check"
            /\ UNCHANGED <<snapshot, results, exc>>
       ELSE \E k \in DOMAIN snapshot :
              /\ Collect(snapshot[k], "ac_first")
              /\ snapshot' = RemoveAt(snapshot, k)
    /\ UNCHANGED others
    /\ UNCHANGED <<tracking, finishOrder, early>>
    /\ UNCHANGED <<input, toolModes, status, fut, toolCalls, waiterOn, waiterFinished,
                   yielding, pending, timedOut, ret, report>>

\* The head of the while loop of as_completed: it ends when nothing is
\* pending and raises TimeoutError when the deadline has passed.
CheckPending ==
    /\ pc = "ac_check"
    /\ IF pending = 0
       THEN pc' = "shutdown" /\ exc' = exc
       ELSE IF timedOut
       THEN pc' = "shutdown" /\ exc' = <<"TimeoutError", "futures unfinished">>
       ELSE pc' = "ac_wait" /\ exc' = exc
    /\ UNCHANGED others
    /\ UNCHANGED <<tracking, finishOrder, early>>
    /\ UNCHANGED <<input, toolModes, status, fut, toolCalls, snapshot, waiterOn,
                   waiterFinished, yielding, pending, timedOut, results, ret, report>>

\* waiter.event.wait(wait_timeout) returns when a future has finished or the
\* deadline has passed; the finished futures are taken from the waiter.
WaitFinished ==
    /\ pc = "ac_wait"
    /\ waiterFinished # <<>> \/ timedOut
    /\ yielding' = waiterFinished
    /\ waiterFinished' = <<>>
    /\ pc' = "ac_yield"
    /\ UNCHANGED others
    /\ UNCHANGED <<tracking, finishOrder, early>>
    /\ UNCHANGED <<input, toolModes, status, fut, toolCalls, snapshot, waiterOn,
                   pending, timedOut, results, exc, ret, report>>

\* The futures taken from the waiter are yielded in finishing order.
YieldFinished ==
    /\ pc = "ac_yield"
    /\ IF yielding = <<>>
       THEN /\ pc' = "ac_check"
            /\ UNCHANGED <<yielding, pending, results, exc>>
       ELSE /\ Collect(Head(yielding), "ac_yield")
            /\ yielding' = Tail(yielding)
            /\ pending' = pending - 1
    /\ UNCHANGED others
    /\ UNCHANGED <<tracking, finishOrder, early>>
    /\ UNCHANGED <<input, toolModes, status, fut, toolCalls, snapshot, waiterOn,
                   waiterFinished, timedOut, ret, report>>

\* PARALLEL_TIMEOUT seconds pass while as_completed is iterated.
TimeoutElapses ==
    /\ pc \in {"ac_first", "ac_check", "ac_wait", "ac_yield"}
    /\ ~timedOut
    /\ timedOut' = TRUE
    /\ UNCHANGED others
    /\ UNCHANGED <<tracking, finishOrder, early>>
    /\ UNCHANGED <<input, toolModes, pc, status, fut, toolCalls, snapshot, waiterOn,
                   waiterFinished, yielding, pending, results, exc, ret, report>>

AllWorkersDone == \A i \in DOMAIN status : status[i] = "done"

\* The end of the with block: executor.shutdown(wait=True) joins the worker
\* threads, which end when every submitted work item has run; an exception
\* in flight is then raised to the caller.
ExitWith ==
    /\ pc = "shutdown"
    /\ AllWorkersDone
    /\ pc' = IF exc = NoExc THEN "format" ELSE "raised"
    /\ UNCHANGED others
    /\ UNCHANGED <<tracking, finishOrder, early>>
    /\ UNCHANGED <<input, toolModes, status, fut, toolCalls, snapshot, waiterOn,
                   waiterFinished, yielding, pending, timedOut, results, exc, ret,
                   report>>

(* ---------------------------- the report ------------------------------- *)

\* A count of all the results.
SuccessCount_all(rs) == Len(rs)

SuccessCount(rs) == Cardinality({ k \in DOMAIN rs : rs[k].success })

ReportEntry(r) ==
    [label |-> upper(r.type[2]),
     status |-> IF r.success THEN "SUCCESS" ELSE "FAILED",
     query |-> r.query,
     payload |-> r.result]

\* The count of the successes and the formatting loop; r["type"].upper()
\* raises when the type is not a string.
Format ==
    /\ pc = "format"
    /\ IF \E k \in DOMAIN results : ~IsStr(results[k].type)
       THEN /\ exc' = <<"AttributeError", "object has no attribute 'upper'">>
            /\ pc' = "raised"
            /\ report' = report
       ELSE /\ report' = [ok |-> SuccessCount(results),
                          total |-> Len(results),
                          entries |-> [k \in DOMAIN results |-> ReportEntry(results[k])]]
            /\ pc' = "returned"
            /\ exc' = exc
    /\ UNCHANGED others
    /\ UNCHANGED <<tracking, finishOrder, early>>
    /\ UNCHANGED <<input, toolModes, status, fut, toolCalls, snapshot, waiterOn,
                   waiterFinished, yielding, pending, timedOut, results, ret>>

Next ==
    \/ Validate
    \/ SubmitAll
    \/ \E i \in DOMAIN status : WorkerStart(i)
    \/ \E i \in DOMAIN status : WorkerFinish(i)
    \/ AsCompletedStart
    \/ YieldSnapshot
    \/ CheckPending
    \/ WaitFinished
    \/ YieldFinished
    \/ TimeoutElapses
    \/ ExitWith
    \/ Format

Spec == Init /\ [][Next]_vars

(* ------------- the runs that record the finishing order ---------------- *)

\* Batches of up to MaxOrderLen of these entries, and one batch that is
\* larger than the pool.
MaxOrderLen == 2

OrderEntries ==
    { Dict(JStr("web"), JStr("q")),
      Dict(JStr("NEWS"), JStr("q")),
      Dict(JStr("bogus"), JStr("q")) }

OrderBatches == UNION { [1..n -> OrderEntries] : n \in 1..MaxOrderLen }

InitOrder ==
    /\ \/ \E ss \in OrderBatches :
            input = Input("object", TRUE, ss) /\ toolModes = Outcomes
       \/ /\ input = Input("object", TRUE, Uniform(MAX_WORKERS + 1, WellFormed))
          /\ toolModes = {Returns("text")}
    /\ pc = "start"
    /\ status = <<>>
    /\ fut = <<>>
    /\ toolCalls = <<>>
    /\ snapshot = <<>>
    /\ waiterOn = FALSE
    /\ waiterFinished = <<>>
    /\ yielding = <<>>
    /\ pending = 0
    /\ timedOut = FALSE
    /\ results = <<>>
    /\ exc = NoExc
    /\ ret = NoRet
    /\ report = NoReport
    /\ tracking = TRUE
    /\ finishOrder = <<>>
    /\ early = 0
    /\ TruncationIdle
    /\ RetryIdle
    /\ MemoryIdle
    /\ AgentIdle

SpecOrder == InitOrder /\ [][Next]_vars

TypeOK ==
    /\ pc \in {"start", "submit", "as_completed", "ac_first", "ac_check", "ac_wait",
               "ac_yield", "shutdown", "format", "returned", "raised", "off"}
    /\ pending \in 0..(MAX_SEARCHES + 1)
    /\ timedOut \in BOOLEAN

(* ------------------------- truncate_result ----------------------------- *)

\* A text is a sequence of characters.  The payloads of this part are made
\* of a filler character and of the two characters truncate_result looks
\* for.
Period == "."
Newline == "\n"
Marker == <<".", ".", ".">>

\* TRUNCATION_LIMITS
LIMIT_WEB == 600
LIMIT_WIKIPEDIA == 800
LIMIT_NEWS == 700
LIMIT_ARXIV == 800
LIMIT_DEFAULT == 500

\* TRUNCATION_LIMITS.get(search_type, TRUNCATION_LIMITS["default"]): the key
\* is looked up as it is written.
Limit(search_type) ==
    CASE search_type = "web" -> LIMIT_WEB
      [] search_type = "wikipedia" -> LIMIT_WIKIPEDIA
      [] search_type = "news" -> LIMIT_NEWS
      [] search_type = "arxiv" -> LIMIT_ARXIV
      [] OTHER -> LIMIT_DEFAULT

\* str.rfind(c): the 0-based index of the last c, or -1.
rfind(text, c) ==
    LET hits == { i \in 1..Len(text) : text[i] = c }
    IN  IF hits = {} THEN -1
        ELSE (CHOOSE i \in hits : \A j \in hits : j <= i) - 1

max(a, b) == IF a >= b THEN a ELSE b

\* A test that accepts a boundary at exactly 70% of the limit.
ExceedsSeventyPercent_orEqual(cut_point, limit) == 10 * cut_point >= 7 * limit

\* cut_point > limit * 0.7, in double precision: 700 * 0.7 is
\* 489.99999999999994, and the products of 500, 600 and 800 are exact.
ExceedsSeventyPercent(cut_point, limit) ==
    IF limit = 700 THEN cut_point >= 490 ELSE 10 * cut_point > 7 * limit

\* A truncation that appends the marker to short payloads too.
truncate_result_always(result, search_type) ==
    LET limit == Limit(search_type)
        truncated == SubSeq(result, 1, IF Len(result) <= limit THEN Len(result) ELSE limit)
        cut_point == max(rfind(truncated, Period), rfind(truncated, Newline))
    IN  IF ExceedsSeventyPercent(cut_point, limit)
        THEN SubSeq(result, 1, cut_point + 1) \o Marker
        ELSE truncated \o Marker

truncate_result(result, search_type) ==
    LET limit == Limit(search_type)
        truncated == SubSeq(result, 1, limit)
        last_period == rfind(truncated, Period)
        last_newline == rfind(truncated, Newline)
        cut_point == max(last_period, last_newline)
    IN  IF Len(result) <= limit THEN result
        ELSE IF ExceedsSeventyPercent(cut_point, limit)
             THEN SubSeq(result, 1, cut_point + 1) \o Marker
             ELSE truncated \o Marker

\* The payloads: filler with one boundary character, or with a period and a
\* newline next to each other, at the positions within Slack of the two
\* places where truncate_result decides (70% of a limit, and the limit), and
\* filler alone.
Slack == 3

Fill(n) == [i \in 1..n |-> "a"]

Limits == {LIMIT_WEB, LIMIT_WIKIPEDIA, LIMIT_NEWS, LIMIT_ARXIV, LIMIT_DEFAULT}

Positions(limit) ==
    LET seventy == (7 * limit) \div 10
    IN  {0} \cup ((seventy - Slack)..(seventy + Slack)) \cup ((limit - 1 - Slack)..(limit + 1))

Tails(limit) == {0, 1, limit}

Payloads ==
    UNION { { Fill(n) : n \in {0, limit - 1, limit, limit + 1, 2 * limit} }
            \cup { Fill(p) \o <<c>> \o Fill(q) :
                     p \in Positions(limit), c \in {Period, Newline}, q \in Tails(limit) }
            \cup { Fill(p) \o pair \o Fill(limit) :
                     p \in Positions(limit),
                     pair \in {<<Period, Newline>>, <<Newline, Period>>} }
            : limit \in Limits }

\* The types of the results that are formatted.
ResultTypes == {"web", "wikipedia", "news", "arxiv", "NEWS", "Web", "bogus"}

\* parallel_search is not running.
DispatcherIdle ==
    /\ input = Input("object", TRUE, <<>>)
    /\ toolModes = {}
    /\ pc = "off"
    /\ status = <<>>
    /\ fut = <<>>
    /\ toolCalls = <<>>
    /\ snapshot = <<>>
    /\ waiterOn = FALSE
    /\ waiterFinished = <<>>
    /\ yielding = <<>>
    /\ pending = 0
    /\ timedOut = FALSE
    /\ results = <<>>
    /\ exc = NoExc
    /\ ret = NoRet
    /\ report = NoReport
    /\ tracking = FALSE
    /\ finishOrder = <<>>
    /\ early = 0

InitTruncate ==
    /\ DispatcherIdle
    /\ RetryIdle
    /\ MemoryIdle
    /\ AgentIdle
    /\ tr_result \in Payloads
    /\ tr_type \in ResultTypes
    /\ tr_once = <<>>
    /\ tr_twice = <<>>
    /\ tr_pc = "in"

\* truncate_result(r["result"], r["type"]), as the formatting loop calls it.
TruncateEntry ==
    /\ tr_pc = "in"
    /\ tr_once' = truncate_result(tr_result, tr_type)
    /\ tr_pc' = "once"
    /\ UNCHANGED <<tr_result, tr_type, tr_twice>>
    /\ UNCHANGED <<dispatcher, retrying, memory, agent>>

\* truncate_result applied to its own output.
TruncateAgain ==
    /\ tr_pc = "once"
    /\ tr_twice' = truncate_result(tr_once, tr_type)
    /\ tr_pc' = "twice"
    /\ UNCHANGED <<tr_result, tr_type, tr_once>>
    /\ UNCHANGED <<dispatcher, retrying, memory, agent>>

NextTruncate ==
    \/ TruncateEntry
    \/ TruncateAgain

SpecTruncate == InitTruncate /\ [][NextTruncate]_vars

(* --------------------------- retry_on_error ---------------------------- *)

\* The wrapped function is called with max_retries from -1 to MaxRetries.
MaxRetries == 2

\* What a call of the wrapped function can do: return a value, raise an
\* exception of a type listed in 'exceptions', or raise one of another
\* type.  The value and the exception are those of that call.
CallKinds == {"returns", "raises_listed", "raises_other"}
CallOutcome(kind, n) == [kind |-> kind, call |-> n]

InitRetry ==
    /\ DispatcherIdle
    /\ TruncationIdle
    /\ MemoryIdle
    /\ AgentIdle
    /\ max_retries \in -1..MaxRetries
    /\ delay \in {1, 2}
    /\ backoff \in {1, 2, 3}
    /\ attempt = 0
    /\ current_delay = delay
    /\ last_exception = None
    /\ calls = <<>>
    /\ sleeps = <<>>
    /\ wrapper_pc = "start"
    /\ wrapper_result = None

\* A test that lets one more attempt through.
Exhausted_late == attempt = max_retries + 1

\* attempt == max_retries
Exhausted == attempt = max_retries

\* The head of 'for attempt in range(max_retries + 1)' on entry: an empty
\* range leads to 'raise last_exception' with last_exception = None, which
\* raises TypeError.
WrapperEnter ==
    /\ wrapper_pc = "start"
    /\ IF max_retries + 1 <= 0
       THEN /\ wrapper_pc' = "raised"
            /\ wrapper_result' = <<"TypeError", "exceptions must derive from BaseException">>
       ELSE /\ wrapper_pc' = "try"
            /\ wrapper_result' = wrapper_result
    /\ UNCHANGED <<max_retries, delay, backoff, attempt, current_delay, last_exception,
                   calls, sleeps>>
    /\ UNCHANGED <<dispatcher, truncation, memory, agent>>

\* A try statement whose except clause catches every exception.
WrapperCall_catchall ==
    /\ wrapper_pc = "try"
    /\ \E kind \in CallKinds :
        LET outcome_ == CallOutcome(kind, Len(calls) + 1)
        IN  /\ calls' = Append(calls, outcome_)
            /\ IF kind = "returns"
               THEN /\ wrapper_pc' = "returned"
                    /\ wrapper_result' = outcome_
                    /\ last_exception' = last_exception
               ELSE /\ last_exception' = outcome_
                    /\ IF Exhausted
                       THEN /\ wrapper_pc' = "raised"
                            /\ wrapper_result' = outcome_
                       ELSE /\ wrapper_pc' = "sleep"
                            /\ wrapper_result' = wrapper_result
    /\ UNCHANGED <<max_retries, delay, backoff, attempt, current_delay, sleeps>>
    /\ UNCHANGED <<dispatcher, truncation, memory, agent>>

\* One pass through the try statement: the call of func and, when it raises
\* a listed exception, the except clause up to the bare raise.
WrapperCall ==
    /\ wrapper_pc = "try"
    /\ \E kind \in CallKinds :
        LET outcome_ == CallOutcome(kind, Len(calls) + 1)
        IN  /\ calls' = Append(calls, outcome_)
            /\ CASE kind = "returns" ->
                      /\ wrapper_pc' = "returned"
                      /\ wrapper_result' = outcome_
                      /\ last_exception' = last_exception
                 [] kind = "raises_other" ->
                      /\ wrapper_pc' = "raised"
                      /\ wrapper_result' = outcome_
                      /\ last_exception' = last_exception
                 [] kind = "raises_listed" ->
                      /\ last_exception' = outcome_
                      /\ IF Exhausted
                         THEN /\ wrapper_pc' = "raised"
                              /\ wrapper_result' = outcome_
                         ELSE /\ wrapper_pc' = "sleep"
                              /\ wrapper_result' = wrapper_result
    /\ UNCHANGED <<max_retries, delay, backoff, attempt, current_delay, sleeps>>
    /\ UNCHANGED <<dispatcher, truncation, memory, agent>>

\* A wait that does not grow.
WrapperSleep_fixed ==
    /\ wrapper_pc = "sleep"
    /\ sleeps' = Append(sleeps, current_delay)
    /\ current_delay' = current_delay
    /\ attempt' = attempt + 1
    /\ wrapper_pc' = "try"
    /\ UNCHANGED <<max_retries, delay, backoff, last_exception, calls, wrapper_result>>
    /\ UNCHANGED <<dispatcher, truncation, memory, agent>>

\* time.sleep(current_delay), the growth of current_delay and the next
\* value of the loop variable.
WrapperSleep ==
    /\ wrapper_pc = "sleep"
    /\ sleeps' = Append(sleeps, current_delay)
    /\ current_delay' = current_delay * backoff
    /\ attempt' = attempt + 1
    /\ wrapper_pc' = "try"
    /\ UNCHANGED <<max_retries, delay, backoff, last_exception, calls, wrapper_result>>
    /\ UNCHANGED <<dispatcher, truncation, memory, agent>>

NextRetry ==
    \/ WrapperEnter
    \/ WrapperCall
    \/ WrapperSleep

SpecRetry == InitRetry /\ [][NextRetry]_vars

(* ---------------------------- SimpleMemory ----------------------------- *)

\* Histories of up to MaxHistory exchanges.
MaxHistory == 3

Exchanges == { <<"q1", "a1">>, <<"q2", "a2">> }

\* The histories that a session file can hold.
StoredHistories == { <<>>, << <<"q2", "a2">> >>, << <<"q2", "a2">>, <<"q1", "a1">> >> }

NoConversation == <<"No previous conversation.">>

\* list[-k:]
LastSlice(list, k_) ==
    LET n == Len(list)
    IN  IF k_ = 0 THEN list
        ELSE IF k_ > 0 THEN SubSeq(list, IF n - k_ < 0 THEN 1 ELSE n - k_ + 1, n)
        ELSE SubSeq(list, IF -k_ > n THEN n + 1 ELSE -k_ + 1, n)

\* The lines of the rendering, which are joined with newlines.
Lines(list) ==
    [ i \in 1..(2 * Len(list)) |->
        IF i % 2 = 1 THEN <<"Human: ", list[(i + 1) \div 2][1]>>
        ELSE <<"Assistant: ", list[i \div 2][2]>> ]

add_exchange(list, exchange) == Append(list, exchange)

get_history_string(list, k_) ==
    IF list = <<>> THEN NoConversation ELSE Lines(LastSlice(list, k_))

InitMemory ==
    /\ DispatcherIdle
    /\ TruncationIdle
    /\ RetryIdle
    /\ AgentIdle
    /\ memory_k \in {0, 1, 2, 5}
    /\ history = <<>>
    /\ added = <<>>
    /\ chat_history = None
    /\ memory_pc = "ready"

AddExchange ==
    /\ memory_pc = "ready"
    /\ Len(history) < MaxHistory
    /\ \E exchange \in Exchanges :
        /\ history' = add_exchange(history, exchange)
        /\ added' = Append(added, exchange)
    /\ chat_history' = None
    /\ UNCHANGED <<memory_k, memory_pc>>
    /\ UNCHANGED <<dispatcher, truncation, retrying, agent>>

GetHistoryString ==
    /\ memory_pc = "ready"
    /\ chat_history' = get_history_string(history, memory_k)
    /\ UNCHANGED <<memory_k, history, added, memory_pc>>
    /\ UNCHANGED <<dispatcher, truncation, retrying, agent>>

Clear ==
    /\ memory_pc = "ready"
    /\ history' = <<>>
    /\ added' = <<>>
    /\ chat_history' = None
    /\ UNCHANGED <<memory_k, memory_pc>>
    /\ UNCHANGED <<dispatcher, truncation, retrying, agent>>

\* ResearchAgent.load_session: when the session is read, the history of the
\* memory is replaced by a copy of the stored one; when it is not (None),
\* the memory is left as it is.
LoadSession ==
    /\ memory_pc = "ready"
    /\ \E found \in BOOLEAN, stored \in StoredHistories :
        IF ~found
        THEN UNCHANGED <<history, added, chat_history>>
        ELSE /\ history' = stored
             /\ added' = stored
             /\ chat_history' = None
    /\ UNCHANGED <<memory_k, memory_pc>>
    /\ UNCHANGED <<dispatcher, truncation, retrying, agent>>

NextMemory ==
    \/ AddExchange
    \/ GetHistoryString
    \/ Clear
    \/ LoadSession

SpecMemory == InitMemory /\ [][NextMemory]_vars

(* ------------------- sessions and the ResearchAgent -------------------- *)

\* Runs of up to MaxSteps calls on the agent, during MaxClock ticks of the
\* clock (seconds), TicksPerDay of them in a day.
MaxSteps == 4
MaxClock == 2
TicksPerDay == 2

\* Texts that are built from parts (session ids, file paths) are sequences
\* of their parts.
SESSIONS_DIR == "sessions"
JsonSuffix == ".json"
Separator == "/"

\* datetime.now().strftime('%d.%m.%Y') and strftime('%H%M%S')
DateStr(c) == <<"01.01.2026", "02.01.2026", "03.01.2026", "04.01.2026">>[(c \div TicksPerDay) + 1]
TimeStr(c) == <<"235958", "235959", "235960">>[(c % TicksPerDay) + 1]

\* A description is given by its words (description.split()); an empty
\* description has no words.
Descriptions == { <<"Tesla", "stock!">>, <<"tesla", "stock">>, <<"!!!">>, <<>> }

\* word.lower() without the characters that are not alphanumeric
CleanWord(word) ==
    CASE word = "Tesla" -> "tesla"
      [] word = "stock!" -> "stock"
      [] word = "!!!" -> ""
      [] OTHER -> word

\* '_'.join(words)
RECURSIVE Join(_)
Join(words) ==
    IF words = <<>> THEN <<>>
    ELSE IF Len(words) = 1 THEN words
    ELSE <<words[1], "_">> \o Join(Tail(words))

IsNone(v) == v = None

generate_session_id(description, c) ==
    LET words == IF IsNone(description) THEN <<>>
                 ELSE SubSeq(description, 1, IF Len(description) < 3 THEN Len(description) ELSE 3)
        cleaned == [i \in DOMAIN words |-> CleanWord(words[i])]
        clean_words == SelectSeq(cleaned, LAMBDA w : w # "")
    IN  IF clean_words # <<>>
        THEN <<DateStr(c), "_">> \o Join(clean_words)
        ELSE <<DateStr(c), "_session_", TimeStr(c)>>

\* os.path.join(SESSIONS_DIR, f"{session_id}.json")
FilePath(session_id) == <<SESSIONS_DIR, Separator>> \o session_id \o <<JsonSuffix>>

\* os.path.basename(filepath)
basename(filepath) ==
    LET seps == { i \in DOMAIN filepath : filepath[i] = Separator }
        last == IF seps = {} THEN 0 ELSE CHOOSE i \in seps : \A j \in seps : j <= i
    IN  SubSeq(filepath, last + 1, Len(filepath))

\* filename.replace('.json', '')
RemoveJson(filename) == SelectSeq(filename, LAMBDA part : part # JsonSuffix)

\* The content of a file: a session written by save_session, or a file that
\* is not valid JSON, a JSON object that lacks a key, or JSON of another
\* shape (such as "history": null).  The time stamps are left out.
FileOf(kind, session_id, message_count, hist) ==
    [kind |-> kind, session_id |-> session_id, message_count |-> message_count,
     history |-> hist]

\* A session file whose entries have the two keys exchanged.
SessionData_swapped(session_id, hist) ==
    FileOf("session", session_id, Len(hist),
           [i \in DOMAIN hist |-> [input |-> hist[i][2], output |-> hist[i][1]]])

\* session_data of save_session
SessionData(session_id, hist) ==
    FileOf("session", session_id, Len(hist),
           [i \in DOMAIN hist |-> [input |-> hist[i][1], output |-> hist[i][2]]])

Corrupt(kind) == FileOf(kind, <<>>, 0, <<>>)

Write(fs, path, content) ==
    [q \in (DOMAIN fs) \cup {path} |-> IF q = path THEN content ELSE fs[q]]

\* save_session: the id used, the path written and the files afterwards.
save_session(fs, hist, session_id, description, c) ==
    LET id == IF IsNone(session_id) THEN generate_session_id(description, c) ELSE session_id
        filepath == FilePath(id)
    IN  [id |-> id, filepath |-> filepath,
         files |-> Write(fs, filepath, SessionData(id, hist))]

\* load_session: the history as a list of pairs, None, or an exception.
Loaded(status_, hist) == [status |-> status_, history |-> hist]

load_session(fs, session_id) ==
    LET filepath == FilePath(session_id)
    IN  IF filepath \notin DOMAIN fs THEN Loaded("None", <<>>)
        ELSE LET data == fs[filepath]
             IN  CASE data.kind = "invalid" -> Loaded("None", <<>>)
                   [] data.kind = "nokeys" -> Loaded("None", <<>>)
                   [] data.kind = "wrongtype" -> Loaded("TypeError", <<>>)
                   [] OTHER ->
                        Loaded("list", [i \in DOMAIN data.history |->
                                          <<data.history[i].input, data.history[i].output>>])

\* The record of a call on the agent: its name and argument, what it
\* returned or raised, the path it read or wrote and whether a file was
\* there, and the history, the session id and the session file before it.
\* For a query, 'arg' is the question with the answer of the engine, and
\* 'answered' tells whether the engine gave it.
Op(name, arg, result, path, existed, answered, pre_history, pre_id, pre_session) ==
    [name |-> name, arg |-> arg, result |-> result, path |-> path,
     existed |-> existed, answered |-> answered,
     pre_history |-> pre_history, pre_id |-> pre_id, pre_session |-> pre_session]

Result(kind, value) == <<kind, value>>

\* The ids given to save_session and load_session by the caller.
ExplicitIds == { <<"notes">>, <<"notes", JsonSuffix>> }
OldId == <<"old">>

\* What the sessions directory holds when the agent starts: nothing, or one
\* file.
InitialFiles ==
    { NoFiles }
    \cup { Write(NoFiles, FilePath(OldId), content) :
             content \in { SessionData(OldId, << <<"q2", "a2">>, <<"q1", "a1">> >>),
                           Corrupt("invalid"), Corrupt("nokeys"), Corrupt("wrongtype") } }

InitAgent ==
    /\ DispatcherIdle
    /\ TruncationIdle
    /\ RetryIdle
    /\ memory_k = 5
    /\ history = <<>>
    /\ added = <<>>
    /\ chat_history = None
    /\ memory_pc = "agent"
    /\ current_session_id = None
    /\ files \in InitialFiles
    /\ clock = 0
    /\ steps = 0
    /\ op = NoOp
    /\ session_file = NoSessionFile

Record(name, arg, result, path, existed, answered) ==
    Op(name, arg, result, path, existed, answered, history, current_session_id, session_file)

\* A query that stores the exchange before the engine has answered.
Query_storefirst ==
    /\ memory_pc = "agent"
    /\ steps < MaxSteps
    /\ chat_history' = get_history_string(history, memory_k)
    /\ \E exchange \in Exchanges, engine \in {"answers", "raises", "summary_raises"} :
         /\ history' = add_exchange(history, exchange)
         /\ added' = Append(added, exchange)
         /\ op' = Record("query", exchange,
                         IF engine = "answers" THEN Result("returned", exchange[2])
                         ELSE Result("returned", "Error running research query: boom"),
                         None, FALSE, engine # "raises")
    /\ steps' = steps + 1
    /\ UNCHANGED <<memory_k, memory_pc, current_session_id, files, clock, session_file>>
    /\ UNCHANGED <<dispatcher, truncation, retrying>>

\* ResearchAgent.query: the engine answers or raises an Exception; the
\* printing of the timing summary, after the exchange is stored, can raise
\* as well.
Query ==
    /\ memory_pc = "agent"
    /\ steps < MaxSteps
    /\ chat_history' = get_history_string(history, memory_k)
    /\ \E exchange \in Exchanges, engine \in {"answers", "raises", "summary_raises"} :
         /\ IF engine = "raises"
            THEN UNCHANGED <<history, added>>
            ELSE /\ history' = add_exchange(history, exchange)
                 /\ added' = Append(added, exchange)
         /\ op' = Record("query", exchange,
                         IF engine = "answers" THEN Result("returned", exchange[2])
                         ELSE Result("returned", "Error running research query: boom"),
                         None, FALSE, engine # "raises")
    /\ steps' = steps + 1
    /\ UNCHANGED <<memory_k, memory_pc, current_session_id, files, clock, session_file>>
    /\ UNCHANGED <<dispatcher, truncation, retrying>>

\* ResearchAgent.clear_memory
ClearMemory ==
    /\ memory_pc = "agent"
    /\ steps < MaxSteps
    /\ history' = <<>>
    /\ added' = <<>>
    /\ current_session_id' = None
    /\ session_file' = NoSessionFile
    /\ op' = Record("clear", None, Result("returned", "None"), None, FALSE, FALSE)
    /\ steps' = steps + 1
    /\ UNCHANGED <<memory_k, chat_history, memory_pc, files, clock>>
    /\ UNCHANGED <<dispatcher, truncation, retrying>>

\* The id that save_session of the agent keeps after a first save: the file
\* name without '.json'.
NewSessionId(saved) == RemoveJson(basename(saved.filepath))

\* ResearchAgent.save_session(session_id, description)
SaveSession ==
    /\ memory_pc = "agent"
    /\ steps < MaxSteps
    /\ \E given \in ExplicitIds \cup {None}, description \in Descriptions \cup {None} :
         /\ (~IsNone(given) \/ ~IsNone(current_session_id)) => IsNone(description)
         /\ LET session_id == IF IsNone(given) /\ ~IsNone(current_session_id)
                              THEN current_session_id ELSE given
                saved == save_session(files, history, session_id, description, clock)
            IN  /\ files' = saved.files
                /\ current_session_id' = IF IsNone(current_session_id)
                                         THEN NewSessionId(saved)
                                         ELSE current_session_id
                /\ session_file' = IF session_file.origin = "none"
                                   THEN [origin |-> "save", path |-> saved.filepath]
                                   ELSE session_file
                /\ op' = Record("save", IF IsNone(given) THEN "without id" ELSE "with id",
                                Result("returned", "filepath"), saved.filepath,
                                saved.filepath \in DOMAIN files, FALSE)
    /\ steps' = steps + 1
    /\ UNCHANGED <<memory_k, history, added, chat_history, memory_pc, clock>>
    /\ UNCHANGED <<dispatcher, truncation, retrying>>

\* The ids that can be given to load_session: those of the caller and those
\* of the sessions in the directory.
LoadChoices ==
    ExplicitIds \cup {OldId, <<"missing">>}
    \cup { files[path].session_id : path \in { q \in DOMAIN files : files[q].kind = "session" } }

\* A load that takes the id as the current one before it reads the file.
AgentLoadSession_idfirst ==
    /\ memory_pc = "agent"
    /\ steps < MaxSteps
    /\ \E session_id \in LoadChoices :
         LET loaded == load_session(files, session_id)
         IN  /\ current_session_id' = session_id
             /\ IF loaded.status = "list"
                THEN /\ history' = loaded.history
                     /\ added' = loaded.history
                     /\ session_file' = [origin |-> "load", path |-> FilePath(session_id)]
                ELSE UNCHANGED <<history, added, session_file>>
             /\ op' = Record("load", session_id,
                             CASE loaded.status = "list" -> Result("returned", "True")
                               [] loaded.status = "None" -> Result("returned", "False")
                               [] OTHER -> Result("raised", loaded.status),
                             FilePath(session_id), FilePath(session_id) \in DOMAIN files,
                             FALSE)
    /\ steps' = steps + 1
    /\ UNCHANGED <<memory_k, chat_history, memory_pc, files, clock>>
    /\ UNCHANGED <<dispatcher, truncation, retrying>>

\* ResearchAgent.load_session(session_id)
AgentLoadSession ==
    /\ memory_pc = "agent"
    /\ steps < MaxSteps
    /\ \E session_id \in LoadChoices :
         LET loaded == load_session(files, session_id)
         IN  /\ IF loaded.status = "list"
                THEN /\ history' = loaded.history
                     /\ added' = loaded.history
                     /\ current_session_id' = session_id
                     /\ session_file' = [origin |-> "load", path |-> FilePath(session_id)]
                ELSE UNCHANGED <<history, added, current_session_id, session_file>>
             /\ op' = Record("load", session_id,
                             CASE loaded.status = "list" -> Result("returned", "True")
                               [] loaded.status = "None" -> Result("returned", "False")
                               [] OTHER -> Result("raised", loaded.status),
                             FilePath(session_id), FilePath(session_id) \in DOMAIN files,
                             FALSE)
    /\ steps' = steps + 1
    /\ UNCHANGED <<memory_k, chat_history, memory_pc, files, clock>>
    /\ UNCHANGED <<dispatcher, truncation, retrying>>

\* A second passes.
Tick ==
    /\ memory_pc = "agent"
    /\ clock < MaxClock
    /\ clock' = clock + 1
    /\ UNCHANGED <<current_session_id, files, steps, op, session_file>>
    /\ UNCHANGED <<dispatcher, truncation, retrying, memory>>

NextAgent ==
    \/ Query
    \/ ClearMemory
    \/ SaveSession
    \/ AgentLoadSession
    \/ Tick

SpecAgent == InitAgent /\ [][NextAgent]_vars

(* ======================= properties ==================================== *)

Finished == pc \in {"returned", "raised"}
ReportReturned == pc = "returned" /\ ret = NoRet
ErrorReturned == pc = "returned" /\ ret # NoRet

IsObject(s) == s.shape = "dict"
HasStringType(s) == IsObject(s) /\ (s.type = Absent \/ IsStr(s.type))
WellFormedRequest(s) == HasStringType(s) /\ s.query # Absent

\* A batch of 1..10 objects, each with a query and with a string (or no) type.
ValidBatch ==
    /\ input.top = "object"
    /\ N \in 1..MAX_SEARCHES
    /\ \A i \in 1..N : WellFormedRequest(searches[i])

\* C1: for every valid batch of 1..10 requests, parallel_search ends with a
\* report that has exactly as many entries as there were requests, also when
\* the batch timeout elapses before all workers have finished.
C1_NoSilentDrop ==
    (ValidBatch /\ Finished) =>
        (ReportReturned /\ Len(report.entries) = N /\ report.total = N)

\* C2: parallel_search never raises: every failure reaches the caller as a
\* returned text.
C2_NeverRaises == pc # "raised"

\* The steps of the thread that runs parallel_search.
DispatcherStep ==
    \/ YieldSnapshot
    \/ CheckPending
    \/ WaitFinished
    \/ YieldFinished
    \/ ExitWith
    \/ Format

\* C3: once the batch timeout has elapsed, parallel_search is never blocked:
\* it can take its next step whatever the workers do, so that it finishes
\* without waiting for a worker that is still running.
C3_TimeoutBoundsWait ==
    (timedOut /\ ~Finished) => ENABLED DispatcherStep

(* ----------------- requests and their report entries ------------------- *)

\* The type a request is run with and the label of its report entry.
TypeOf(s) == IF s.type = Absent THEN "web" ELSE s.type[2]
LabelOf(s) == upper(TypeOf(s))

Resolves(s) == HasStringType(s) /\ lower(TypeOf(s)) \in {"web", "wikipedia", "news", "arxiv"}
UnknownType(s) == IsObject(s) /\ IsStr(s.type) /\ ~Resolves(s)

Entry(label, st, q, payload) == [label |-> label, status |-> st, query |-> q, payload |-> payload]

NumEntries(label, q) ==
    Cardinality({ k \in DOMAIN report.entries :
                    report.entries[k].label = label /\ report.entries[k].query = q })
NumRequests(label, q) ==
    Cardinality({ j \in 1..N : LabelOf(searches[j]) = label /\ searches[j].query = q })

\* Every request of the batch has its own entry in the report.
EveryRequestHasEntry ==
    /\ Len(report.entries) = N
    /\ \A i \in 1..N :
         NumEntries(LabelOf(searches[i]), searches[i].query)
            = NumRequests(LabelOf(searches[i]), searches[i].query)

ToolRaised(i) == Len(toolCalls[i]) = 1 /\ toolCalls[i][1].did[1] = "raise"
ToolReturned(i) == Len(toolCalls[i]) = 1 /\ toolCalls[i][1].did[1] = "return"

\* C4: a request whose type is not a registered tool never has a tool
\* function called for it, its worker returns a failed record whose payload
\* names the type and lists the valid types, the report has that failed
\* entry, and every other request of the batch has its own entry.
C4_UnknownType ==
    \A i \in DOMAIN fut :
        UnknownType(searches[i]) =>
            /\ toolCalls[i] = <<>>
            /\ fut[i].kind # "none" =>
                 fut[i] = Returned(Rec(searches[i].type, searches[i].query,
                                       UnknownTypeMsg(searches[i].type[2]), FALSE))
            /\ ReportReturned =>
                 /\ \E k \in DOMAIN report.entries :
                      report.entries[k] = Entry(upper(searches[i].type[2]), "FAILED",
                                                searches[i].query,
                                                UnknownTypeMsg(searches[i].type[2]))
                 /\ EveryRequestHasEntry

C4_Witness ==
    /\ ReportReturned
    /\ N = 2
    /\ UnknownType(searches[1])
    /\ ToolReturned(2)
    /\ report.ok = 1

C6_ExecutorNeverRaises ==
    \A i \in DOMAIN fut : IsObject(searches[i]) => fut[i].kind # "exception"

AllObjects == \A i \in 1..Len(input.searches) : IsObject(input.searches[i])
MissingQuery == { i \in 1..Len(input.searches) : input.searches[i].query = Absent }

\* The malformed batches: invalid JSON, no "searches" key, an empty list,
\* more than 10 entries, or objects of which one has no "query" key.
MalformedBatch ==
    \/ input.top = "invalid"
    \/ /\ input.top = "object"
       /\ \/ ~input.hasSearches
          \/ input.searches = <<>>
          \/ Len(input.searches) > 10
          \/ AllObjects /\ MissingQuery # {}

\* The one message a malformed batch is reported by.
MalformedMessage ==
    IF input.top = "invalid" THEN <<"Error: Invalid JSON.", 0>>
    ELSE IF ~input.hasSearches \/ input.searches = <<>>
    THEN <<"Error: No searches provided. Include a 'searches' array.", 0>>
    ELSE IF Len(input.searches) > 10
    THEN <<"Error: Maximum 10 parallel searches allowed.", 0>>
    ELSE <<"Error: Search is missing 'query' field.",
           CHOOSE i \in MissingQuery : \A j \in MissingQuery : i <= j>>

NothingExecuted == status = <<>> /\ fut = <<>> /\ toolCalls = <<>>

TenWellFormed ==
    /\ input.top = "object"
    /\ input.hasSearches
    /\ Len(input.searches) = 10
    /\ \A i \in 1..10 : WellFormedRequest(input.searches[i])

\* C7: a malformed batch is never executed (no request is submitted to the
\* pool, no tool function is called) and parallel_search returns its one
\* error message; a batch of exactly 10 well-formed entries passes the
\* validation and its 10 requests are submitted.
C7_MalformedBatch ==
    /\ MalformedBatch =>
         /\ NothingExecuted
         /\ pc \in {"start", "returned"}
         /\ pc = "returned" => (ret = MalformedMessage /\ exc = NoExc /\ report = NoReport)
    /\ (TenWellFormed /\ pc # "start") =>
         /\ ret = NoRet
         /\ pc = "submit" \/ Len(status) = 10

C7_Witness ==
    /\ ErrorReturned
    /\ ret = <<"Error: Search is missing 'query' field.", 2>>
    /\ WellFormedRequest(input.searches[1])
    /\ NothingExecuted

EmptyQuery == { i \in 1..Len(input.searches) : input.searches[i].query = JStr("") }

\* C8 as stated: a batch in which some entry's query is the empty string is
\* rejected before any worker is started.
C8_EmptyQueryRejected ==
    (input.top = "object" /\ input.hasSearches /\ EmptyQuery # {}) =>
        (NothingExecuted /\ pc \in {"start", "returned"})

\* C8, amended: a batch of objects of which one has no "query" key is
\* rejected before any worker is started; the emptiness of a query is not
\* tested: a batch of 1..10 well-formed entries passes the validation also
\* when a query is the empty string, and the tool function of such a request
\* is called with the empty string.
C8_MissingQueryRejected ==
    /\ (input.top = "object" /\ input.hasSearches /\ Len(input.searches) \in 1..10
            /\ AllObjects /\ MissingQuery # {}) =>
         /\ NothingExecuted
         /\ pc \in {"start", "returned"}
         /\ pc = "returned" => ret[1] = "Error: Search is missing 'query' field."
    /\ (ValidBatch /\ pc # "start") =>
         /\ ret = NoRet
         /\ pc = "submit" \/ Len(status) = N
    /\ \A i \in DOMAIN status :
         (Resolves(searches[i]) /\ searches[i].query = JStr("") /\ status[i] = "done") =>
            (Len(toolCalls[i]) = 1 /\ toolCalls[i][1].arg = JStr(""))

C8_Witness ==
    /\ ReportReturned
    /\ \E i \in 1..N : searches[i].query = JStr("") /\ Len(toolCalls[i]) = 1

\* C9 as stated: a request that omits the type never has a tool run for it
\* and its record has success = false.
C9_OmittedTypeFails ==
    \A i \in DOMAIN fut :
        (IsObject(searches[i]) /\ searches[i].type = Absent) =>
            /\ toolCalls[i] = <<>>
            /\ fut[i].kind = "result" => ~fut[i].rec.success

\* C9, amended: a request that omits the type is run as a web search: the
\* web tool is called once, with its query; its record and its report entry
\* carry the type web and succeed exactly when the call returns; and every
\* request of the batch has its own entry in the report.
C9_OmittedTypeIsWeb ==
    \A i \in DOMAIN fut :
        (IsObject(searches[i]) /\ searches[i].type = Absent /\ status[i] = "done") =>
            /\ Len(toolCalls[i]) = 1
            /\ toolCalls[i][1].tool = "web"
            /\ toolCalls[i][1].arg = searches[i].query
            /\ fut[i].kind = "result"
            /\ fut[i].rec.type = JStr("web")
            /\ fut[i].rec.query = searches[i].query
            /\ fut[i].rec.success = ToolReturned(i)
            /\ ReportReturned =>
                 /\ \E k \in DOMAIN report.entries :
                      /\ report.entries[k].label = "WEB"
                      /\ report.entries[k].query = searches[i].query
                      /\ report.entries[k].status =
                            (IF ToolReturned(i) THEN "SUCCESS" ELSE "FAILED")
                 /\ EveryRequestHasEntry

C9_Witness ==
    /\ ReportReturned
    /\ N = 2
    /\ searches[1].type = Absent
    /\ ToolReturned(1)
    /\ ToolRaised(2)
    /\ report.ok = 1

\* C10: a record has success = true exactly when a registered tool was
\* called for the request and the call returned, and its payload is then the
\* returned text, also when that text is an error message; an entry made by
\* the dispatcher never has success = true; the report counts and labels
\* the entries accordingly.
C10_SuccessIffToolReturned ==
    /\ \A i \in DOMAIN fut :
         fut[i].kind = "result" =>
            /\ fut[i].rec.success = (ToolReturned(i) /\ toolCalls[i][1].tool \in RegisteredTools)
            /\ ToolReturned(i) => fut[i].rec.result = ToolText(toolCalls[i][1].did[2])
    /\ \A k \in DOMAIN results :
         results[k].success => \E i \in DOMAIN fut : ToolReturned(i) /\ fut[i].rec = results[k]
    /\ ReportReturned =>
         /\ report.ok = Cardinality({ i \in DOMAIN fut : ToolReturned(i) })
         /\ \A k \in DOMAIN report.entries :
              (report.entries[k].status = "SUCCESS") = results[k].success

C10_Witness ==
    /\ ReportReturned
    /\ \E k \in DOMAIN report.entries :
         report.entries[k] = Entry("WEB", "SUCCESS", JStr(""),
                                   ToolText("Error: No search query provided."))
    /\ \E k \in DOMAIN report.entries : report.entries[k].status = "FAILED"

Done == { i \in DOMAIN status : status[i] = "done" }

EntryOf(item) ==
    Entry(LabelOf(item.search),
          IF item.fut.rec.success THEN "SUCCESS" ELSE "FAILED",
          item.search.query,
          item.fut.rec.result)

Occurrences(seq, lo, hi, x) == Cardinality({ k \in lo..hi : seq[k] = x })

FinishedEntries == [k \in 1..Len(finishOrder) |-> EntryOf(finishOrder[k])]

PairOf(s) == <<IF s.type = Absent THEN JStr("web") ELSE s.type, s.query>>

ResultsWith(pair) ==
    Cardinality({ k \in DOMAIN results : <<results[k].type, results[k].query>> = pair })
RequestsWith(pair) ==
    Cardinality({ i \in 1..N : PairOf(searches[i]) = pair })

\* C13: every collected result carries the type and query of a request of
\* the batch, no pair occurs more often among the results than among the
\* requests, and once all futures are collected each pair occurs exactly as
\* often among the results, and among the entries of the report, as among
\* the requests, also when requests share a type or are identical.
C13_Echo ==
    /\ \A k \in DOMAIN results :
         /\ \E i \in 1..N : <<results[k].type, results[k].query>> = PairOf(searches[i])
         /\ ResultsWith(<<results[k].type, results[k].query>>)
               <= RequestsWith(<<results[k].type, results[k].query>>)
    /\ (pc = "format" \/ ReportReturned) =>
         /\ Len(results) = N
         /\ \A i \in 1..N : ResultsWith(PairOf(searches[i])) = RequestsWith(PairOf(searches[i]))
    /\ ReportReturned =>
         /\ Len(report.entries) = N
         /\ \A k \in DOMAIN report.entries :
              /\ report.entries[k].label = upper(results[k].type[2])
              /\ report.entries[k].query = results[k].query

C13_Witness ==
    /\ ReportReturned
    /\ N = 2
    /\ searches[1] = searches[2]
    /\ Len(report.entries) = 2
    /\ report.entries[1].query = searches[1].query
    /\ report.entries[2].query = searches[1].query

AllFailed ==
    /\ DOMAIN fut = 1..N
    /\ \A i \in 1..N : fut[i].kind = "result" /\ ~fut[i].rec.success

\* C14: the summary of a report gives the number of its entries and the
\* number of those with success = true, every entry is labelled SUCCESS or
\* FAILED by its success flag, and a valid batch in which every request
\* failed ends, unless the batch timeout is raised, with a report of 0
\* successes and one FAILED entry per request.
C14_Summary ==
    /\ ReportReturned =>
         /\ report.total = Len(report.entries)
         /\ report.total = Len(results)
         /\ report.ok = Cardinality({ k \in DOMAIN results : results[k].success })
         /\ report.ok = Cardinality({ k \in DOMAIN report.entries :
                                        report.entries[k].status = "SUCCESS" })
         /\ report.ok <= report.total
         /\ \A k \in DOMAIN report.entries :
              report.entries[k].status = (IF results[k].success THEN "SUCCESS" ELSE "FAILED")
    /\ (ValidBatch /\ Finished /\ AllFailed /\ exc[1] # "TimeoutError") =>
         /\ ReportReturned
         /\ report.ok = 0
         /\ report.total = N
         /\ \A k \in DOMAIN report.entries : report.entries[k].status = "FAILED"

C14_Witness ==
    /\ ReportReturned
    /\ N = 2
    /\ AllFailed
    /\ report.ok = 0
    /\ report.total = 2

(* ------------------ properties of truncate_result ---------------------- *)

Truncated == tr_pc \in {"once", "twice"}

\* C15: truncate_result is idempotent: applied to its own output with the
\* same type it returns that output, also when the last period or newline
\* of the payload lies in the last three positions before the budget.
C15_Idempotent == (tr_pc = "twice") => (tr_twice = tr_once)

\* C16: the output of truncate_result is at most 3 characters (the marker)
\* longer than the budget of the type, and a payload that is within the
\* budget is returned as it is.
C16_LengthBound ==
    Truncated =>
        /\ Len(tr_once) <= Limit(tr_type) + 3
        /\ (Len(tr_result) <= Limit(tr_type)) => (tr_once = tr_result)
        /\ (tr_pc = "twice") => Len(tr_twice) <= Limit(tr_type) + 3

C16_Witness ==
    /\ tr_pc = "once"
    /\ tr_type = "news"
    /\ Len(tr_result) = 1400
    /\ Len(tr_once) = 703

\* The 0-based index of the last period or newline within the first
\* Limit(tr_type) characters of the payload, or -1.
LastBoundary ==
    max(rfind(SubSeq(tr_result, 1, Limit(tr_type)), Period),
        rfind(SubSeq(tr_result, 1, Limit(tr_type)), Newline))

CutAfterBoundary == SubSeq(tr_result, 1, LastBoundary + 1) \o Marker
HardCut == SubSeq(tr_result, 1, Limit(tr_type)) \o Marker

\* The smallest index of a boundary at which truncate_result cuts.
FirstAccepted(limit) ==
    CASE limit = 500 -> 351
      [] limit = 600 -> 421
      [] limit = 700 -> 490
      [] limit = 800 -> 561

KindBudget(kind) ==
    CASE kind = "web" -> 600
      [] kind = "wikipedia" -> 800
      [] kind = "news" -> 700
      [] kind = "arxiv" -> 800
      [] OTHER -> 500

\* C18: an entry is truncated with the budget of the tool kind that its type
\* resolved to (case-insensitively): 600 for web, 800 for wikipedia, 700
\* for news, 800 for arxiv, and 500 only for a type that resolves to no tool.
C18_BudgetOfKind ==
    Truncated =>
        LET kind == get_search_function(tr_type)
        IN  /\ Limit(tr_type) = KindBudget(kind)
            /\ (Len(tr_result) <= KindBudget(kind)) => (tr_once = tr_result)
            /\ tr_once = truncate_result(tr_result, kind)

(* ------------------- properties of retry_on_error ---------------------- *)

AllRaisedListed(cs) == \A i \in DOMAIN cs : cs[i].kind = "raises_listed"

\* C19: with max_retries = n >= 0 the wrapped function is called at most
\* n+1 times; the wrapper returns the value of the first call that does not
\* raise, and no call follows it; when all n+1 calls raise a listed
\* exception the wrapper raises the exception of the last call.
C19_AtMostNPlusOneCalls ==
    (wrapper_pc # "off" /\ max_retries >= 0) =>
        /\ Len(calls) <= max_retries + 1
        /\ \A i \in 1..(Len(calls) - 1) : calls[i].kind = "raises_listed"
        /\ (calls # <<>> /\ calls[Len(calls)].kind = "returns") =>
               /\ wrapper_pc = "returned"
               /\ wrapper_result = CallOutcome("returns", Len(calls))
        /\ (wrapper_pc = "returned") =>
               /\ calls # <<>>
               /\ calls[Len(calls)].kind = "returns"
        /\ (Len(calls) = max_retries + 1 /\ AllRaisedListed(calls)) =>
               /\ wrapper_pc = "raised"
               /\ wrapper_result = CallOutcome("raises_listed", max_retries + 1)

C19_Witness ==
    /\ max_retries = 2
    /\ Len(calls) = 3
    /\ AllRaisedListed(calls)
    /\ wrapper_pc = "raised"
    /\ wrapper_result = CallOutcome("raises_listed", 3)

(* --------------------- properties of SimpleMemory ---------------------- *)

Min(a, b) == IF a <= b THEN a ELSE b

\* The last m elements of a list, m <= Len(list).
Last(list, m) == SubSeq(list, Len(list) - m + 1, Len(list))

\* C20: the history holds every exchange added since the last clear or
\* session load, in order; get_history_string renders the last min(k, n)
\* of the n stored exchanges, in order, and returns 'No previous
\* conversation.' exactly when the history is empty.
C20_LastKRendered ==
    (memory_pc = "ready") =>
        /\ history = added
        /\ (chat_history # None) =>
              /\ (chat_history = NoConversation) <=> (history = <<>>)
              /\ (history # <<>>) =>
                    chat_history = Lines(Last(history, Min(memory_k, Len(history))))

(* ------------- properties of the collection of the futures ------------- *)

\* C22: an exception that leaves a worker is turned into one failed entry
\* 'Execution error: <message>' for its request, whatever the shape of the
\* request; it does not leave parallel_search, and the report is produced
\* with one entry per request.
C22_WorkerExceptionIsolated ==
    (Finished /\ exc[1] # "TimeoutError") =>
        \A i \in DOMAIN fut :
            (fut[i].kind = "exception") =>
                /\ ReportReturned
                /\ Len(report.entries) = N
                /\ \E k \in DOMAIN report.entries :
                     /\ report.entries[k].status = "FAILED"
                     /\ report.entries[k].payload = ExecutionErrorMsg(fut[i].exc[2])

(* ----------------- properties of the waits of the wrapper -------------- *)

RECURSIVE Pow(_, _)
Pow(b, e) == IF e = 0 THEN 1 ELSE b * Pow(b, e - 1)

WrapperEnded == wrapper_pc \in {"returned", "raised"}

\* C23: the i-th wait of the wrapper is delay * backoff^(i-1); there is
\* exactly one wait after each failed call that is followed by another call,
\* and none after a call that returns or after the last failed call.
C23_Backoff ==
    (wrapper_pc # "off") =>
        /\ \A i \in DOMAIN sleeps : sleeps[i] = delay * Pow(backoff, i - 1)
        /\ (wrapper_pc = "start") => (sleeps = <<>> /\ calls = <<>>)
        /\ (wrapper_pc = "try") => (Len(sleeps) = Len(calls))
        /\ (wrapper_pc = "sleep") => (Len(sleeps) = Len(calls) - 1)
        /\ (WrapperEnded /\ calls # <<>>) => (Len(sleeps) = Len(calls) - 1)
        /\ (WrapperEnded /\ calls = <<>>) => (sleeps = <<>>)

C23_Witness ==
    /\ wrapper_pc = "raised"
    /\ max_retries = 2
    /\ delay = 2
    /\ backoff = 3
    /\ Len(calls) = 3
    /\ sleeps = <<2, 6>>

\* C24: an exception of a type that is not listed leaves the wrapper when
\* it is first raised: it is the exception the wrapper raises, no call and
\* no wait follows it.
C24_OnlyListedRetried ==
    (wrapper_pc # "off") =>
        \A i \in DOMAIN calls :
            (calls[i].kind = "raises_other") =>
                /\ i = Len(calls)
                /\ wrapper_pc = "raised"
                /\ wrapper_result = calls[i]
                /\ Len(sleeps) = i - 1

C24_Witness ==
    /\ wrapper_pc = "raised"
    /\ Len(calls) = 2
    /\ calls[1].kind = "raises_listed"
    /\ calls[2].kind = "raises_other"
    /\ wrapper_result = CallOutcome("raises_other", 2)
    /\ Len(sleeps) = 1

(* ------------------- properties of the ResearchAgent ------------------- *)

\* C21: within a session, that is after a first save or a load and until
\* clear_memory or another load, every save without an id writes to the
\* file of the session and leaves current_session_id as it was.
C21_SameSessionFile ==
    (op.name = "save" /\ op.arg = "without id" /\ op.pre_session.origin # "none") =>
        /\ op.path = op.pre_session.path
        /\ current_session_id = op.pre_id

C26_NewFileAfterClear ==
    (op.name = "save" /\ op.arg = "without id" /\ IsNone(op.pre_id)) => ~op.existed

Unreadable(path) == files[path].kind \in {"invalid", "nokeys"}

StoredPairs(path) ==
    [i \in DOMAIN files[path].history |->
        <<files[path].history[i].input, files[path].history[i].output>>]

\* C27: a load of a file that is missing, is not valid JSON or lacks a key
\* returns False and leaves the history and current_session_id as they
\* were; a load that succeeds returns True, the history is the stored one
\* and current_session_id the loaded id, and the next save without an id
\* writes to the loaded file.
C27_LoadAllOrNothing ==
    /\ (op.name = "load") =>
          /\ (op.path \notin DOMAIN files \/ Unreadable(op.path)) =>
                op.result = Result("returned", "False")
          /\ (op.result # Result("returned", "True")) =>
                /\ history = op.pre_history
                /\ current_session_id = op.pre_id
          /\ (op.result = Result("returned", "True")) =>
                /\ op.path \in DOMAIN files
                /\ history = StoredPairs(op.path)
                /\ current_session_id = op.arg
    /\ (op.name = "save" /\ op.arg = "without id" /\ op.pre_session.origin = "load") =>
          /\ op.path = op.pre_session.path
          /\ op.existed

C27_Witness ==
    /\ op.name = "load"
    /\ op.path \in DOMAIN files
    /\ Unreadable(op.path)
    /\ op.result = Result("returned", "False")
    /\ history # <<>>
    /\ ~IsNone(current_session_id)

\* C28: after save_session has written a history under an id, load_session
\* of that id returns the same pairs in the same order, and the stored
\* message_count is the length of the history.
C28_RoundTrip ==
    (op.name = "save") =>
        /\ load_session(files, files[op.path].session_id) = Loaded("list", history)
        /\ files[op.path].message_count = Len(history)

C28_Witness ==
    /\ op.name = "save"
    /\ Len(history) = 2
    /\ history[1] # history[2]
    /\ load_session(files, files[op.path].session_id).history = history

====
